---------------------------- MODULE Spec2Model ----------------------------
(***************************************************************************)
(* Model of the Bhagavad Gita corpus utilities:                            *)
(*   src/src/recompute_speakers.py  (Speaker Normalizer)                   *)
(*   src/src/add-speaker.py         (Speaker Annotator)                    *)
(*   src/src/generate-html.py       (Text Grouping Engine)                 *)
(*                                                                         *)
(* A text is a sequence of symbols.  In a slok the symbols are words,      *)
(* "sp" (a blank) and "nl" (a line break); the Devanagari words of the     *)
(* source are written in transliteration.  A JSON object read with         *)
(* object_pairs_hook=OrderedDict is a sequence of <<key, value>> pairs.    *)
(* A file name bhagavadgita_chapter_<c>_slok_<v>.json is the record of its *)
(* two digit strings.                                                      *)
(***************************************************************************)
EXTENDS Integers, Sequences, FiniteSets, TLC

\* ------------------------------------------------------------------ bounds
MaxFiles == 2          \* files in the slok directory
MaxRuns == 2           \* tool invocations in one behaviour
MaxVerses == 3
MaxExample == 4         \* verse records handed to the renderer

\* ------------------------------------------------------- Python's values
\* Python's None, as a value distinct from every text.
None == <<"None">>

\* The content of a file json.load raises JSONDecodeError on.
Malformed == <<"JSONDecodeError">>

\* json.load returns a document.
Parses(data) == data # Malformed

\* last_chapter = None, as an integer no file name parses to.
NoChapter == -1

SpSet == {"sp"}

RECURSIVE SeqToInt(_)
\* int(str) on a string of decimal digits.
SeqToInt(ds) ==
    IF ds = <<>> THEN 0
    ELSE 10 * SeqToInt(SubSeq(ds, 1, Len(ds) - 1)) + ds[Len(ds)]

\* str.startswith
startswith(s, p) == Len(s) >= Len(p) /\ SubSeq(s, 1, Len(p)) = p

\* str.split('\n', 1)[0]
SplitFirst(s) ==
    LET nls == {i \in 1..Len(s) : s[i] = "nl"}
    IN IF nls = {} THEN s
       ELSE SubSeq(s, 1, (CHOOSE i \in nls : \A j \in nls : i <= j) - 1)

\* str.strip() (blanks at both ends)
strip(s) ==
    LET ns == {i \in 1..Len(s) : s[i] \notin SpSet}
    IN IF ns = {} THEN <<>>
       ELSE SubSeq(s, CHOOSE i \in ns : \A j \in ns : i <= j,
                      CHOOSE i \in ns : \A j \in ns : i >= j)

\* --------------------------------------------------- OrderedDict helpers
HasKey(data, k) == \E i \in 1..Len(data) : data[i][1] = k

\* dict.get(k, default)
Get(data, k, default) ==
    IF HasKey(data, k)
    THEN data[CHOOSE i \in 1..Len(data) : data[i][1] = k][2]
    ELSE default

\* ------------------------------------------------ recompute_speakers.py
PREFIX_MAP ==
    << <<(<<"sribhagavanuvaca">>), <<"sribhagavan">> >>,
       <<(<<"arjuna", "sp", "uvaca">>), <<"arjuna">> >>,
       <<(<<"sanjaya", "sp", "uvaca">>), <<"sanjaya">> >>,
       <<(<<"dhritarashtra", "sp", "uvaca">>), <<"dhritarashtra">> >> >>

\* FILENAME_RE needs \d+ twice: a name lacking digits does not match.
parse_numbers(path) ==
    IF path.chap = <<>> \/ path.verse = <<>> THEN None
    ELSE <<SeqToInt(path.chap), SeqToInt(path.verse)>>

detect_prefix(slok) ==
    IF slok = None \/ slok = <<>> THEN None
    ELSE LET first_line == strip(SplitFirst(slok))
             hits == {i \in 1..Len(PREFIX_MAP) :
                         startswith(first_line, PREFIX_MAP[i][1])}
         IN IF hits = {} THEN None
            ELSE PREFIX_MAP[CHOOSE i \in hits : \A j \in hits : i <= j][2]

\* Faulty variant: the old speaker entry is dropped and none is inserted.
rebuild_with_speaker_DropsSpeaker(data, speaker) ==
    SelectSeq(data, LAMBDA kv : kv[1] # "speaker")

RECURSIVE rebuild_with_speaker(_, _)
rebuild_with_speaker(data, speaker) ==
    IF data = <<>> THEN <<>>
    ELSE LET k == Head(data)[1]
             rest == rebuild_with_speaker(Tail(data), speaker)
         IN IF k = "slok" THEN << <<"speaker", speaker>>, Head(data) >> \o rest
            ELSE IF k = "speaker" THEN rest
            ELSE <<Head(data)>> \o rest


\* ---------------------------------------------------------- add-speaker.py
\* Faulty variant: this copy of the map names Arjuna differently.
AddSpeaker_PREFIX_MAP_Drifted ==
    << <<(<<"sribhagavanuvaca">>), <<"sribhagavan">> >>,
       <<(<<"arjuna", "sp", "uvaca">>), <<"arjun">> >>,
       <<(<<"sanjaya", "sp", "uvaca">>), <<"sanjaya">> >>,
       <<(<<"dhritarashtra", "sp", "uvaca">>), <<"dhritarashtra">> >> >>

AddSpeaker_PREFIX_MAP ==
    << <<(<<"sribhagavanuvaca">>), <<"sribhagavan">> >>,
       <<(<<"arjuna", "sp", "uvaca">>), <<"arjuna">> >>,
       <<(<<"sanjaya", "sp", "uvaca">>), <<"sanjaya">> >>,
       <<(<<"dhritarashtra", "sp", "uvaca">>), <<"dhritarashtra">> >> >>

first_line(slok) ==
    IF slok = None \/ slok = <<>> THEN <<>>
    ELSE strip(SplitFirst(slok))

\* Faulty variant: the matched prefix is returned in place of the speaker.
detect_ReturnsPrefix(slok) ==
    LET fl == first_line(slok)
        hits == {i \in 1..Len(AddSpeaker_PREFIX_MAP) :
                    startswith(fl, AddSpeaker_PREFIX_MAP[i][1])}
    IN IF hits = {} THEN None
       ELSE AddSpeaker_PREFIX_MAP[CHOOSE i \in hits : \A j \in hits : i <= j][1]

detect(slok) ==
    LET fl == first_line(slok)
        hits == {i \in 1..Len(AddSpeaker_PREFIX_MAP) :
                    startswith(fl, AddSpeaker_PREFIX_MAP[i][1])}
    IN IF hits = {} THEN None
       ELSE AddSpeaker_PREFIX_MAP[CHOOSE i \in hits : \A j \in hits : i <= j][2]

RECURSIVE insert_speaker_AfterSlok(_, _)
\* Faulty variant: the speaker is placed after slok.
insert_speaker_AfterSlok(data, speaker) ==
    IF data = <<>> THEN <<>>
    ELSE LET k == Head(data)[1]
             rest == insert_speaker_AfterSlok(Tail(data), speaker)
         IN IF k = "speaker" THEN rest
            ELSE IF k = "slok" THEN << Head(data), <<"speaker", speaker>> >> \o rest
            ELSE <<Head(data)>> \o rest

\* Faulty variant: the old speaker is dropped and none is put back.
insert_speaker_DropOnly(data, speaker) == SelectSeq(data, LAMBDA kv : kv[1] # "speaker")

RECURSIVE insert_speaker(_, _)
insert_speaker(data, speaker) ==
    IF data = <<>> THEN <<>>
    ELSE LET k == Head(data)[1]
             rest == insert_speaker(Tail(data), speaker)
         IN IF k = "speaker" THEN rest
            ELSE IF k = "slok" THEN << <<"speaker", speaker>>, Head(data) >> \o rest
            ELSE <<Head(data)>> \o rest

\* Faulty variant: a differing speaker is corrected whatever the flag.
ActionOf_IgnoresFlag(data, fixFlag) ==
    LET detected == detect(Get(data, "slok", <<>>))
        existing == Get(data, "speaker", None)
    IN IF detected # None
       THEN IF existing = None THEN "add"
            ELSE IF existing # detected THEN "fix"
            ELSE "match"
       ELSE "none"

\* The action process_file decides on, lines 58-77.
ActionOf(data, fixFlag) ==
    LET detected == detect(Get(data, "slok", <<>>))
        existing == Get(data, "speaker", None)
    IN IF detected # None
       THEN IF existing = None THEN "add"
            ELSE IF existing # detected
                 THEN (IF fixFlag THEN "fix" ELSE "mismatch")
                 ELSE "match"
       ELSE "none"

\* ------------------------------------------------------------- sorting
RECURSIVE SeqLess(_, _)
\* Python's < on tuples of integers and on strings (sequences of codes).
SeqLess(a, b) ==
    IF b = <<>> THEN FALSE
    ELSE IF a = <<>> THEN TRUE
    ELSE IF Head(a) # Head(b) THEN Head(a) < Head(b)
    ELSE SeqLess(Tail(a), Tail(b))

RECURSIVE InsertByKey(_, _)
\* Place x = <<key, item>> after every element whose key is not greater.
InsertByKey(sorted, x) ==
    IF sorted = <<>> THEN <<x>>
    ELSE IF SeqLess(x[1], Head(sorted)[1]) THEN <<x>> \o sorted
    ELSE <<Head(sorted)>> \o InsertByKey(Tail(sorted), x)

RECURSIVE SortByKey(_)
\* list.sort(key=...) / sorted(): a stable sort of <<key, item>> pairs.
SortByKey(list) ==
    IF list = <<>> THEN <<>>
    ELSE InsertByKey(SortByKey(SubSeq(list, 1, Len(list) - 1)), list[Len(list)])

Items(pairs) == [i \in 1..Len(pairs) |-> pairs[i][2]]

\* The characters of a file name, as character codes.
PathString(path) ==
    [i \in 1..Len(path.chap) |-> 48 + path.chap[i]]
    \o <<95, 115, 108, 111, 107, 95>>
    \o [i \in 1..Len(path.verse) |-> 48 + path.verse[i]]
    \o <<46, 106, 115, 111, 110>>

\* glob.glob returns the directory's files in an arbitrary order.
Glob(dir) ==
    {s \in [1..Cardinality(DOMAIN dir) -> DOMAIN dir] :
        \A i, j \in 1..Cardinality(DOMAIN dir) : i # j => s[i] # s[j]}

RECURSIVE ParseEntries(_)
\* recompute_speakers.main, lines 66-70
ParseEntries(paths) ==
    IF paths = <<>> THEN <<>>
    ELSE LET nums == parse_numbers(Head(paths))
         IN (IF nums # None THEN << <<nums[1], nums[2], Head(paths)>> >> ELSE <<>>)
            \o ParseEntries(Tail(paths))

\* Faulty variant: the entries are sorted by file name, as strings.
SortEntries_Lexicographic(es) ==
    Items(SortByKey([i \in 1..Len(es) |-> <<PathString(es[i][3]), es[i]>>]))

\* recompute_speakers.main, line 72
SortEntries(es) ==
    Items(SortByKey([i \in 1..Len(es) |-> << <<es[i][1], es[i][2]>>, es[i] >>]))

\* add-speaker.main, line 99
SortPaths(paths) ==
    Items(SortByKey([i \in 1..Len(paths) |-> <<PathString(paths[i]), paths[i]>>]))


\* ------------------------------------------------------ generate-html.py
\* A commentary text is a sequence of characters, each a one-character
\* string; "|" stands for the danda, "endash" and "emdash" for the two long
\* dashes.
Whitespace == {" ", "\t", "\n"}

Digits == {"0", "1", "2", "3", "4", "5", "6", "7", "8", "9"}

\* the class [!?,|;:] of normalize_text
PunctAfterSpace == {"!", "?", ",", "|", ";", ":"}

\* the characters strip_for_tokens replaces by a blank
PunctTokens == {"!", "?", ",", "|", ";", ":", "-", "endash", "emdash",
                "[", "]", "\"", "(", ")", "/"}

\* str.lower() on the letters of the texts
Lower(c) ==
    CASE c = "A" -> "a" [] c = "B" -> "b" [] c = "C" -> "c" [] c = "D" -> "d"
      [] c = "E" -> "e" [] c = "X" -> "x" [] c = "Y" -> "y" [] c = "Z" -> "z"
      [] OTHER -> c

\* str.strip() on a character sequence
StripWs(s) ==
    LET ns == {i \in 1..Len(s) : s[i] \notin Whitespace}
    IN IF ns = {} THEN <<>>
       ELSE SubSeq(s, CHOOSE i \in ns : \A j \in ns : i <= j,
                      CHOOSE i \in ns : \A j \in ns : i >= j)

RECURSIVE SkipWhile(_, _, _)
\* The first position at or after p whose character is not in the class.
SkipWhile(s, p, class) ==
    IF p <= Len(s) /\ s[p] \in class THEN SkipWhile(s, p + 1, class) ELSE p

At(s, p, c) == p <= Len(s) /\ s[p] = c

FirstNonZero(x, y) == IF x # 0 THEN x ELSE y

\* \d+ from `from` has ended at p2: p2, 0 when no digit was matched.
DigitsEnd(from, p2) == IF p2 > from THEN p2 ELSE 0

\* \d+ from p has ended at p1: the position after the following \.\d+,
\* 0 when it does not match.
NumberEnd(s, p, p1) ==
    IF p1 > p /\ At(s, p1, ".")
    THEN DigitsEnd(p1 + 1, SkipWhile(s, p1 + 1, Digits)) ELSE 0

\* \d+\.\d+ at p: the position after it, 0 when it does not match.
MatchNumber(s, p) == NumberEnd(s, p, SkipWhile(s, p, Digits))

\* (?:--|[-en em])\s*\d+\.\d+ at q, "--" tried first: the position after it,
\* 0 when it does not match.
RangeFrom(s, q) ==
    FirstNonZero(
        IF At(s, q, "-") /\ At(s, q + 1, "-")
        THEN MatchNumber(s, SkipWhile(s, q + 2, Whitespace)) ELSE 0,
        IF q <= Len(s) /\ s[q] \in {"-", "endash", "emdash"}
        THEN MatchNumber(s, SkipWhile(s, q + 1, Whitespace)) ELSE 0)

\* (?:\s*(?:--|[-en em])\s*\d+\.\d+) at p: the position after it, 0 when
\* it does not match.
MatchRange(s, p) == RangeFrom(s, SkipWhile(s, p, Whitespace))

\* ||\s* at p: the position after it, 0 when p is 0 or it does not match.
CloseAt(s, p) ==
    IF p # 0 /\ At(s, p, "|") /\ At(s, p + 1, "|")
    THEN SkipWhile(s, p + 2, Whitespace) ELSE 0

\* The first number has ended at n1 (0: no number): the optional range and
\* the closing bars; without a range the bars follow the number.
PrefixAfterNumber(s, n1) ==
    IF n1 = 0 THEN 0
    ELSE FirstNonZero(CloseAt(s, MatchRange(s, n1)), CloseAt(s, n1))

\* The whole pattern at the start of s: the position after the match, 0 when
\* it does not match.
MatchVersePrefix(s) ==
    IF ~(At(s, 1, "|") /\ At(s, 2, "|")) THEN 0
    ELSE PrefixAfterNumber(s, MatchNumber(s, SkipWhile(s, 3, Whitespace)))

\* re.sub(pattern, '', s) for a match ending before e (0: no match)
CutAt(s, e) == IF e = 0 THEN s ELSE SubSeq(s, e, Len(s))

StripMatched(s) == CutAt(s, MatchVersePrefix(s))

strip_verse_prefix(text) ==
    IF text = None \/ text = <<>> THEN <<>>
    ELSE StripMatched(StripWs(text))

RECURSIVE CollapseWs(_)
\* re.sub(r'\s+', ' ', s)
CollapseWs(s) ==
    IF s = <<>> THEN <<>>
    ELSE IF Head(s) \in Whitespace
         THEN <<" ">> \o CollapseWs(SubSeq(s, SkipWhile(s, 1, Whitespace), Len(s)))
         ELSE <<Head(s)>> \o CollapseWs(Tail(s))

RECURSIVE DropWsBeforePunct(_)
\* re.sub(r'\s+([!?,|;:])', r'\1', s)
DropWsBeforePunct(s) ==
    IF s = <<>> THEN <<>>
    ELSE LET q == SkipWhile(s, 1, Whitespace)
         IN IF q > 1 /\ q <= Len(s) /\ s[q] \in PunctAfterSpace
            THEN <<s[q]>> \o DropWsBeforePunct(SubSeq(s, q + 1, Len(s)))
            ELSE IF q > 1
                 THEN SubSeq(s, 1, q - 1) \o DropWsBeforePunct(SubSeq(s, q, Len(s)))
                 ELSE <<Head(s)>> \o DropWsBeforePunct(Tail(s))

normalize_text(text) ==
    IF text = None THEN <<>>
    ELSE DropWsBeforePunct(CollapseWs(StripWs(strip_verse_prefix(text))))

\* re.sub(r'[...]', ' ', t)
BlankPunct(t) == [i \in 1..Len(t) |-> IF t[i] \in PunctTokens THEN " " ELSE t[i]]

LowerAll(c) == [i \in 1..Len(c) |-> Lower(c[i])]

strip_for_tokens(text) ==
    IF text = None THEN <<>>
    ELSE LowerAll(CollapseWs(BlankPunct(normalize_text(text))))

RECURSIVE Split(_)
\* str.split(): the maximal runs of non-whitespace, in order
Split(s) ==
    IF s = <<>> THEN <<>>
    ELSE IF Head(s) \in Whitespace THEN Split(Tail(s))
    ELSE LET ws == {i \in 1..Len(s) : s[i] \in Whitespace}
             e == IF ws = {} THEN Len(s) + 1 ELSE CHOOSE i \in ws : \A j \in ws : i <= j
         IN <<SubSeq(s, 1, e - 1)>> \o Split(SubSeq(s, e, Len(s)))

RECURSIVE CommonRun(_, _, _, _, _, _)
\* The length of the common run of a from i (below ahi) and b from j (below bhi).
CommonRun(a, b, i, j, ahi, bhi) ==
    IF i < ahi /\ j < bhi /\ a[i] = b[j]
    THEN 1 + CommonRun(a, b, i + 1, j + 1, ahi, bhi) ELSE 0

\* difflib's find_longest_match on a[alo..ahi) and b[blo..bhi), no junk: the
\* longest matching block, the earliest in a and then in b among the longest.
find_longest_match(a, b, alo, ahi, blo, bhi) ==
    LET starts == (alo..(ahi - 1)) \X (blo..(bhi - 1))
        len(st) == CommonRun(a, b, st[1], st[2], ahi, bhi)
        best == {st \in starts : \A o \in starts : len(o) <= len(st)}
        first == CHOOSE st \in best : \A o \in best :
                     st[1] < o[1] \/ (st[1] = o[1] /\ st[2] <= o[2])
    IN IF starts = {} THEN <<alo, blo, 0>> ELSE <<first[1], first[2], len(first)>>

RECURSIVE MatchingSize(_, _, _, _, _, _)
RECURSIVE BlocksAround(_, _, _, _, _, _, _)
\* The block m = <<i, j, k>> and the blocks left and right of it.
BlocksAround(a, b, alo, ahi, blo, bhi, m) ==
    IF m[3] = 0 THEN 0
    ELSE m[3]
         + (IF alo < m[1] /\ blo < m[2]
            THEN MatchingSize(a, b, alo, m[1], blo, m[2]) ELSE 0)
         + (IF m[1] + m[3] < ahi /\ m[2] + m[3] < bhi
            THEN MatchingSize(a, b, m[1] + m[3], ahi, m[2] + m[3], bhi) ELSE 0)

\* The total size of difflib's get_matching_blocks.
MatchingSize(a, b, alo, ahi, blo, bhi) ==
    BlocksAround(a, b, alo, ahi, blo, bhi, find_longest_match(a, b, alo, ahi, blo, bhi))

\* SequenceMatcher(None, a, b).ratio() > 0.965, with ratio = 2.0 * M / T
\* (1.0 when T = 0), as a comparison of integers.
RatioAbove965(a, b) ==
    IF Len(a) + Len(b) = 0 THEN TRUE
    ELSE 2 * MatchingSize(a, b, 1, Len(a) + 1, 1, Len(b) + 1) * 1000
            > 965 * (Len(a) + Len(b))

Abs(x) == IF x < 0 THEN -x ELSE x

ElementsOf(t) == {t[i] : i \in 1..Len(t)}

\* lines 133-136 on the token lists ta and tb
TokensClose_AtMostOne(ta, tb) ==
    /\ Cardinality((ElementsOf(ta) \ ElementsOf(tb)) \cup (ElementsOf(tb) \ ElementsOf(ta))) <= 1
    /\ Abs(Len(ta) - Len(tb)) <= 3

\* lines 133-137
TokensClose(ta, tb) ==
    /\ Cardinality((ElementsOf(ta) \ ElementsOf(tb)) \cup (ElementsOf(tb) \ ElementsOf(ta))) <= 2
    /\ Abs(Len(ta) - Len(tb)) <= 3

\* lines 126-138 on the normalized texts and the token lists
EquivalentNormalized(na, nb, ta, tb) ==
    IF na = nb THEN TRUE
    ELSE IF RatioAbove965(na, nb) THEN TRUE
    ELSE TokensClose(ta, tb)

are_texts_equivalent(a, b) ==
    EquivalentNormalized(normalize_text(a), normalize_text(b),
                         Split(strip_for_tokens(a)), Split(strip_for_tokens(b)))

\* ------------------------------------------------------------------ state
VARIABLES
    slokDir,              \* the slok/ directory: file name -> parsed JSON object
    pc,                   \* "idle", "recompute" or "add_speaker": the running tool
    last,                 \* the tool started last ("none" before the first run)
    runs,                 \* tool invocations so far
    entries,              \* recompute_speakers.main: the sorted (chap, verse, path) list
    idx,                  \* position of the running tool's for loop
    current_speaker,      \* recompute_speakers.main
    chapter_last_speaker, \* recompute_speakers.main
    last_chapter,         \* recompute_speakers.main
    changed,              \* recompute_speakers.main
    examined,             \* recompute_speakers.main
    fix,                  \* add-speaker: args.fix
    json_files,           \* add-speaker.main: the sorted path list
    counters,             \* add-speaker.main: the tally, 0 for an absent key
    stdout,               \* the lines printed by the running (or last) tool
    written,              \* the paths opened for writing by the running (or last) tool
    prev,                 \* tool, flag, stdout and written of the run before
    slok_data,            \* generate-html: the (chapter, verse, text, speaker) list
    gpc,                  \* generate-html: "off", "read", "sorted", "loop" or "returned"
    gi,                   \* group_sloks: i, counted from 1
    grouped,              \* group_sloks: grouped
    multi,                \* group_sloks: the multi-verse groups it reports
    spans,                \* group_sloks: the values (i, j) of each group appended
    output,               \* the renderers' output files, None while absent
    slok_path_exists      \* read_slok_files: whether the slok/ directory exists

vars == <<slokDir, pc, last, runs, entries, idx, current_speaker,
          chapter_last_speaker, last_chapter, changed, examined, fix,
          json_files, counters, stdout, written, prev,
          slok_data, gpc, gi, grouped, multi, spans, output, slok_path_exists>>

normVars == <<entries, current_speaker, chapter_last_speaker, last_chapter,
              changed, examined>>

annVars == <<fix, json_files, counters>>

toolVars == <<slokDir, pc, last, runs, entries, idx, current_speaker,
              chapter_last_speaker, last_chapter, changed, examined, fix,
              json_files, counters, stdout, written, prev>>

groupVars == <<slok_data, gpc, gi, grouped, multi, spans, output, slok_path_exists>>

ActionTags == {"skip", "add", "fix", "mismatch", "match", "none"}

\* ------------------------------------------------------------ the corpus
\* Candidate file names: chapter 1 verses 2, 3, 10, chapter 2 verse 1, and a
\* .json file whose name carries no numbers.
CandidateNames ==
    { [chap |-> <<1>>, verse |-> <<2>>],
      [chap |-> <<1>>, verse |-> <<3>>],
      [chap |-> <<1>>, verse |-> <<1, 0>>],
      [chap |-> <<2>>, verse |-> <<1>>],
      [chap |-> <<>>, verse |-> <<>>] }

\* Verse texts: each known prefix once, and texts no prefix opens.
InitSloks ==
    { <<"arjuna", "sp", "uvaca", "nl", "w">>,
      <<"sp", "sribhagavanuvaca", "w", "nl", "w">>,
      <<"sanjaya", "sp", "uvaca", "sp">>,
      <<"dhritarashtra", "sp", "uvaca", "sp", "w">>,
      <<"w", "nl", "arjuna", "sp", "uvaca">> }

\* Stored speakers: none, or a canonical name.
InitSpeakers == {None, <<"arjuna">>}

\* A verse record as the tools find it: slok present, speaker (when present)
\* immediately before slok.
VerseRecord(slok, speaker) ==
    << <<"_id", <<"id">> >> >>
    \o (IF speaker = None THEN <<>> ELSE << <<"speaker", speaker>> >>)
    \o << <<"slok", slok>>, <<"rams", <<"c">> >> >>

InitRecords == {VerseRecord(sl, sp) : sl \in InitSloks, sp \in InitSpeakers}

NoRun == [tool |-> "none", fix |-> FALSE, stdout |-> <<>>, written |-> <<>>]

\* No tool has run yet.
ToolsIdle ==
    /\ pc = "idle"
    /\ last = "none"
    /\ runs = 0
    /\ entries = <<>>
    /\ idx = 0
    /\ current_speaker = None
    /\ chapter_last_speaker = None
    /\ last_chapter = NoChapter
    /\ changed = 0
    /\ examined = 0
    /\ fix = FALSE
    /\ json_files = <<>>
    /\ counters = [a \in ActionTags |-> 0]
    /\ stdout = <<>>
    /\ written = <<>>
    /\ prev = NoRun

\* The renderer is not running.
RendererOff ==
    /\ slok_data = <<>>
    /\ gpc = "off"
    /\ gi = 0
    /\ grouped = <<>>
    /\ multi = <<>>
    /\ spans = <<>>

\* No output file yet.
NoOutput == [html |-> None, md |-> None]

Init ==
    /\ \E names \in SUBSET CandidateNames :
          /\ Cardinality(names) <= MaxFiles
          /\ slokDir \in [names -> InitRecords]
    /\ ToolsIdle
    /\ RendererOff
    /\ output = NoOutput
    /\ slok_path_exists = TRUE

\* --------------------------------------- recompute_speakers.py: main()
\* lines 63-78: glob, parse, sort, initialise the loop
RecomputeStart ==
    /\ pc = "idle"
    /\ runs < MaxRuns
    /\ \E paths \in Glob(slokDir) :
          entries' = SortEntries(ParseEntries(paths))
    /\ pc' = "recompute"
    /\ prev' = [tool |-> last, fix |-> fix, stdout |-> stdout, written |-> written]
    /\ last' = "recompute"
    /\ runs' = runs + 1
    /\ idx' = 1
    /\ current_speaker' = None
    /\ chapter_last_speaker' = None
    /\ last_chapter' = NoChapter
    /\ changed' = 0
    /\ examined' = 0
    /\ stdout' = <<>>
    /\ written' = <<>>
    /\ UNCHANGED <<slokDir, annVars>>
    /\ UNCHANGED groupVars

\* Faulty variant: no carry-forward, a record gets only its own prefix.
computed_speaker_NoCarry(chap, lastChap, cur, detected) == detected

\* Faulty variant: the current speaker survives a chapter boundary.
computed_speaker_NoReset(chap, lastChap, cur, detected) ==
    IF detected # None THEN detected ELSE cur

\* lines 86-99: the speaker computed for a record of chapter chap
computed_speaker(chap, lastChap, cur, detected) ==
    LET cs0 == IF chap # lastChap THEN None ELSE cur
    IN IF detected # None THEN detected ELSE cs0

\* Faulty variant: every record with a computed speaker is rewritten.
needs_rewrite_Always(computed, existing) == computed # None

\* line 102
needs_rewrite(computed, existing) == computed # None /\ existing # computed

\* lines 80-111: one iteration of the loop
RecomputeStep ==
    /\ pc = "recompute"
    /\ idx <= Len(entries)
    /\ Parses(slokDir[entries[idx][3]])
    /\ LET chap == entries[idx][1]
           path == entries[idx][3]
           data == slokDir[path]
           slok == Get(data, "slok", <<>>)
           detected == detect_prefix(slok)
           cls0 == IF chap # last_chapter THEN None ELSE chapter_last_speaker
           computed == computed_speaker(chap, last_chapter, current_speaker, detected)
           existing == Get(data, "speaker", None)
       IN /\ last_chapter' = chap
          /\ current_speaker' = computed
          /\ chapter_last_speaker' = (IF detected # None THEN detected ELSE cls0)
          /\ IF needs_rewrite(computed, existing)
             THEN /\ slokDir' = [slokDir EXCEPT ![path] = rebuild_with_speaker(data, computed)]
                  /\ written' = Append(written, path)
                  /\ changed' = changed + 1
                  /\ stdout' = Append(stdout, <<"Updated", path, computed, existing>>)
             ELSE /\ stdout' = Append(stdout, <<"Kept", path, existing>>)
                  /\ UNCHANGED <<slokDir, written, changed>>
          /\ examined' = examined + 1
    /\ idx' = idx + 1
    /\ UNCHANGED <<pc, last, runs, entries, annVars, prev>>
    /\ UNCHANGED groupVars

\* lines 81-82: json.load raises, nothing catches it; the process ends with
\* a traceback
RecomputeCrash ==
    /\ pc = "recompute"
    /\ idx <= Len(entries)
    /\ ~Parses(slokDir[entries[idx][3]])
    /\ stdout' = Append(stdout, <<"Traceback", entries[idx][3]>>)
    /\ pc' = "idle"
    /\ entries' = <<>>
    /\ idx' = 0
    /\ current_speaker' = None
    /\ chapter_last_speaker' = None
    /\ last_chapter' = NoChapter
    /\ changed' = 0
    /\ examined' = 0
    /\ UNCHANGED <<slokDir, last, runs, annVars, written, prev>>
    /\ UNCHANGED groupVars

\* line 113: the summary; the process ends
RecomputeFinish ==
    /\ pc = "recompute"
    /\ idx > Len(entries)
    /\ stdout' = Append(stdout, <<"Summary", examined, changed>>)
    /\ pc' = "idle"
    /\ entries' = <<>>
    /\ idx' = 0
    /\ current_speaker' = None
    /\ chapter_last_speaker' = None
    /\ last_chapter' = NoChapter
    /\ changed' = 0
    /\ examined' = 0
    /\ UNCHANGED <<slokDir, last, runs, annVars, written, prev>>
    /\ UNCHANGED groupVars

\* ------------------------------------------------- add-speaker.py: main()
\* lines 94-102: parse the arguments, glob and sort
AddSpeakerStart(fixArg) ==
    /\ pc = "idle"
    /\ runs < MaxRuns
    /\ \E paths \in Glob(slokDir) :
          json_files' = SortPaths(paths)
    /\ fix' = fixArg
    /\ counters' = [a \in ActionTags |-> 0]
    /\ pc' = "add_speaker"
    /\ prev' = [tool |-> last, fix |-> fix, stdout |-> stdout, written |-> written]
    /\ last' = "add_speaker"
    /\ runs' = runs + 1
    /\ idx' = 1
    /\ stdout' = << <<"Scanning", Cardinality(DOMAIN slokDir)>> >>
    /\ written' = <<>>
    /\ UNCHANGED <<slokDir, normVars>>
    /\ UNCHANGED groupVars


\* Faulty variant: a mismatch is written back too.
should_write_OnMismatch(action) == action \in {"add", "fix", "mismatch"}

\* line 79
should_write(action) == action \in {"add", "fix"}

\* lines 54-85
process_file(path, fixFlag) ==
    LET data == slokDir[path]
        slok_text == Get(data, "slok", <<>>)
        detected == detect(slok_text)
        existing == Get(data, "speaker", None)
        action == ActionOf(data, fixFlag)
    IN /\ IF should_write(action)
          THEN /\ slokDir' = [slokDir EXCEPT ![path] = insert_speaker(data, detected)]
               /\ written' = Append(written, path)
          ELSE UNCHANGED <<slokDir, written>>
       /\ counters' = [counters EXCEPT ![action] = counters[action] + 1]
       /\ stdout' = Append(stdout, <<action, path, existing, detected>>)

\* lines 103-104: one iteration of the loop
AddSpeakerStep ==
    /\ pc = "add_speaker"
    /\ idx <= Len(json_files)
    /\ Parses(slokDir[json_files[idx]])
    /\ process_file(json_files[idx], fix)
    /\ idx' = idx + 1
    /\ UNCHANGED <<pc, last, runs, normVars, fix, json_files, prev>>
    /\ UNCHANGED groupVars

\* process_file, lines 55-56: json.load raises, neither process_file nor
\* main catches it; the process ends with a traceback
AddSpeakerCrash ==
    /\ pc = "add_speaker"
    /\ idx <= Len(json_files)
    /\ ~Parses(slokDir[json_files[idx]])
    /\ stdout' = Append(stdout, <<"Traceback", json_files[idx]>>)
    /\ pc' = "idle"
    /\ idx' = 0
    /\ json_files' = <<>>
    /\ counters' = [a \in ActionTags |-> 0]
    /\ UNCHANGED <<slokDir, last, runs, normVars, fix, written, prev>>
    /\ UNCHANGED groupVars

\* lines 87-90: the tally of the keys present, in sorted key order
summarize(cnt) == <<"Summary", [a \in {b \in ActionTags : cnt[b] > 0} |-> cnt[a]]>>

\* line 106: the summary; the process ends
AddSpeakerFinish ==
    /\ pc = "add_speaker"
    /\ idx > Len(json_files)
    /\ stdout' = Append(stdout, summarize(counters))
    /\ pc' = "idle"
    /\ idx' = 0
    /\ json_files' = <<>>
    /\ counters' = [a \in ActionTags |-> 0]
    /\ UNCHANGED <<slokDir, last, runs, normVars, fix, written, prev>>
    /\ UNCHANGED groupVars

Next ==
    \/ RecomputeStart
    \/ RecomputeStep
    \/ RecomputeFinish
    \/ \E fixArg \in BOOLEAN : AddSpeakerStart(fixArg)
    \/ AddSpeakerStep
    \/ AddSpeakerFinish

Spec == Init /\ [][Next]_vars

\* ------------------------------------------- generate-html.py: grouping
\* The (chapter, verse) pairs the rendered verses are taken from.
GroupIds == {<<1, 1>>, <<1, 2>>, <<1, 3>>, <<2, 2>>}

\* Commentary texts: three that drift ("A B", "A B C", "A B C D E"), one
\* with a verse marker, blanks and punctuation, one unrelated.
GroupTexts ==
    { <<"A", " ", "B">>,
      <<"A", " ", "B", " ", "C">>,
      <<"A", " ", "B", " ", "C", " ", "D", " ", "E">>,
      <<"|", "|", "1", ".", "2", "|", "|", " ", "a", " ", " ", "b", " ", "!">>,
      <<"X", " ", "Y", " ", "Z">> }

GroupSpeakers == {None, <<"arjuna">>}

\* The orders read_slok_files may meet the verses ids in.
Orders(ids) ==
    {o \in [1..Cardinality(ids) -> ids] :
        \A a, b \in 1..Cardinality(ids) : a # b => o[a] # o[b]}

\* What read_slok_files may return for the verses ids: one record each, in
\* any order.
SlokDataOf(ids) ==
    {[k \in 1..Cardinality(ids) |->
         <<o[k][1], o[k][2], content[o[k]][1], content[o[k]][2]>>] :
       o \in Orders(ids), content \in [ids -> GroupTexts \X GroupSpeakers]}

InitGroup ==
    /\ slokDir = <<>>
    /\ ToolsIdle
    /\ \E ids \in {x \in SUBSET GroupIds : Cardinality(x) <= MaxVerses} :
          slok_data \in SlokDataOf(ids)
    /\ gpc = "read"
    /\ gi = 0
    /\ grouped = <<>>
    /\ multi = <<>>
    /\ spans = <<>>
    /\ output = NoOutput
    /\ slok_path_exists = TRUE

\* generate_html, line 188
SortSlokData(data) ==
    Items(SortByKey([k \in 1..Len(data) |-> << <<data[k][1], data[k][2]>>, data[k] >>]))

GenerateHtmlSort ==
    /\ gpc = "read"
    /\ pc # "generate_md"
    /\ slok_data' = SortSlokData(slok_data)
    /\ gpc' = "sorted"
    /\ UNCHANGED <<gi, grouped, multi, spans, output, slok_path_exists>>
    /\ UNCHANGED toolVars

\* group_sloks, lines 150-154
GroupSloksCall ==
    /\ gpc = "sorted"
    /\ grouped' = <<>>
    /\ spans' = <<>>
    /\ IF slok_data = <<>>
       THEN gpc' = "returned" /\ gi' = gi
       ELSE gpc' = "loop" /\ gi' = 1
    /\ UNCHANGED <<slok_data, multi, output, slok_path_exists>>
    /\ UNCHANGED toolVars

RECURSIVE LastVerse(_, _, _, _, _, _)
\* The verse the inner loop of group_sloks stops after.
LastVerse(data, j, chap, end_verse, text, speaker) ==
    IF /\ j <= Len(data)
       /\ data[j][1] = chap
       /\ data[j][2] = end_verse + 1
       /\ data[j][4] = speaker
       /\ are_texts_equivalent(text, data[j][3])
    THEN LastVerse(data, j + 1, chap, data[j][2], text, speaker)
    ELSE end_verse

\* Faulty variant: the outer loop goes on at i + 1 instead of j.
ExtendGroup_NoAdvance(data, j, chap, end_verse, text, speaker) ==
    <<j, LastVerse(data, j, chap, end_verse, text, speaker)>>

RECURSIVE ExtendGroup_Chained(_, _, _, _, _, _)
\* Faulty variant: each verse is compared with the member before it.
ExtendGroup_Chained(data, j, chap, end_verse, text, speaker) ==
    IF /\ j <= Len(data)
       /\ data[j][1] = chap
       /\ data[j][2] = end_verse + 1
       /\ data[j][4] = speaker
       /\ are_texts_equivalent(text, data[j][3])
    THEN ExtendGroup_Chained(data, j + 1, chap, data[j][2], data[j][3], speaker)
    ELSE <<j, end_verse>>

RECURSIVE ExtendGroup(_, _, _, _, _, _)
\* group_sloks, lines 160-166: the inner loop from j; yields <<j, end_verse>>
ExtendGroup(data, j, chap, end_verse, text, speaker) ==
    IF /\ j <= Len(data)
       /\ data[j][1] = chap
       /\ data[j][2] = end_verse + 1
       /\ data[j][4] = speaker
       /\ are_texts_equivalent(text, data[j][3])
    THEN ExtendGroup(data, j + 1, chap, data[j][2], text, speaker)
    ELSE <<j, end_verse>>

\* group_sloks, lines 155-168: one iteration of the outer loop
GroupStep ==
    /\ gpc = "loop"
    /\ gi <= Len(slok_data)
    /\ LET chap == slok_data[gi][1]
           verse == slok_data[gi][2]
           text == slok_data[gi][3]
           speaker == slok_data[gi][4]
           r == ExtendGroup(slok_data, gi + 1, chap, verse, text, speaker)
       IN /\ grouped' = Append(grouped, <<chap, verse, r[2], text, speaker>>)
          /\ spans' = Append(spans, <<gi, r[1]>>)
          /\ gi' = r[1]
    /\ UNCHANGED <<slok_data, gpc, multi, output, slok_path_exists>>
    /\ UNCHANGED toolVars

\* group_sloks, lines 169-175
GroupReturn ==
    /\ gpc = "loop"
    /\ gi > Len(slok_data)
    /\ multi' = SelectSeq(grouped, LAMBDA g : g[2] # g[3])
    /\ gpc' = "returned"
    /\ UNCHANGED <<slok_data, gi, grouped, spans, output, slok_path_exists>>
    /\ UNCHANGED toolVars

\* Faulty variant: the footer counts the messages as verses.
Footer_CountsMessages(data, groups) == <<Len(groups), Len(groups)>>

\* generate_html, lines 459-463: 'Total Verses' and 'Messages Displayed'
Footer(data, groups) == <<Len(data), Len(groups)>>

\* generate_html, lines 192-505: the document written to output_file
HtmlDocument(data, groups) == <<"html", Footer(data, groups), groups>>

\* generate_html, lines 192-508: write the page; the process ends
GenerateHtmlWrite ==
    /\ gpc = "returned"
    /\ output' = [output EXCEPT !.html = HtmlDocument(slok_data, grouped)]
    /\ stdout' = Append(stdout, <<"Generated", Len(slok_data), Len(grouped)>>)
    /\ gpc' = "written"
    /\ pc' = "idle"
    /\ UNCHANGED <<slok_data, gi, grouped, multi, spans, slok_path_exists>>
    /\ UNCHANGED <<slokDir, last, runs, idx, normVars, annVars, written, prev>>

NextGroup ==
    \/ GenerateHtmlSort
    \/ GroupSloksCall
    \/ GroupStep
    \/ GroupReturn
    \/ GenerateHtmlWrite

SpecGroup == InitGroup /\ [][NextGroup]_vars

\* --------------------------------- generate-html.py: the worked example
\* Texts of the example: "ABC", "ABC ", "ABCD", and texts sharing no token
\* with them: "XYZ", "XY XY", "XY Z".
ExampleTexts ==
    { <<"A", "B", "C">>,
      <<"A", "B", "C", " ">>,
      <<"A", "B", "C", "D">>,
      <<"X", "Y", "Z">>,
      <<"X", "Y", " ", "X", "Y">>,
      <<"X", "Y", " ", "Z">> }

\* n consecutive verses of chapter 1, all spoken by arjuna.
ExampleData(n) ==
    {[k \in 1..n |-> <<1, k, t[k], <<"arjuna">> >>] : t \in [1..n -> ExampleTexts]}

InitExample ==
    /\ slokDir = <<>>
    /\ ToolsIdle
    /\ \E n \in 0..MaxExample : slok_data \in ExampleData(n)
    /\ gpc = "read"
    /\ gi = 0
    /\ grouped = <<>>
    /\ multi = <<>>
    /\ spans = <<>>
    /\ output = NoOutput
    /\ slok_path_exists = TRUE

SpecExample == InitExample /\ [][NextGroup]_vars


\* ------------------------- generate-html.py, generate-md.py: main()
\* generate-html.py, lines 15-28 (generate-md.py, lines 13-26)
extract_chapter_slok_numbers(path) ==
    IF path.chap = <<>> \/ path.verse = <<>> THEN None
    ELSE <<SeqToInt(path.chap), SeqToInt(path.verse)>>

\* line 63: 'rams' in data and 'ht' in data['rams']
HasRamsHt(data) == HasKey(data, "rams") /\ HasKey(Get(data, "rams", <<>>), "ht")

\* line 64: data['rams']['ht']
RamsHt(data) == Get(Get(data, "rams", <<>>), "ht", <<>>)

\* The file is one read_slok_files appends a row for.
Usable(path, data) ==
    /\ extract_chapter_slok_numbers(path) # None
    /\ Parses(data)
    /\ HasRamsHt(data)

\* generate-html.read_slok_files, lines 51-66: the rows one file adds
HtmlRows(path, data) ==
    IF Usable(path, data)
    THEN << <<SeqToInt(path.chap), SeqToInt(path.verse), RamsHt(data),
              Get(data, "speaker", None)>> >>
    ELSE <<>>

\* generate-md.read_slok_files, lines 49-63: the rows one file adds
MdRows(path, data) ==
    IF Usable(path, data)
    THEN << <<SeqToInt(path.chap), SeqToInt(path.verse), RamsHt(data)>> >>
    ELSE <<>>

\* read_slok_files, lines 52-73: what is printed for one file
ReadReport(path, data) ==
    IF extract_chapter_slok_numbers(path) = None THEN <<>>
    ELSE IF ~Parses(data) THEN << <<"Error reading", path>> >>
    ELSE IF HasRamsHt(data) THEN <<>>
    ELSE << <<"Warning", path>> >>

\* main up to the loop of read_slok_files: a missing directory is reported
\* and nothing is listed
ReadSlokFilesCall(tool) ==
    /\ runs < MaxRuns
    /\ IF slok_path_exists
       THEN /\ \E paths \in Glob(slokDir) : json_files' = paths
            /\ stdout' = <<>>
       ELSE /\ json_files' = <<>>
            /\ stdout' = << <<"Error: Directory does not exist!">> >>
    /\ pc' = tool
    /\ prev' = [tool |-> last, fix |-> fix, stdout |-> stdout, written |-> written]
    /\ last' = tool
    /\ runs' = runs + 1
    /\ idx' = 1
    /\ written' = <<>>
    /\ slok_data' = <<>>
    /\ gpc' = "reading"
    /\ gi' = 0
    /\ grouped' = <<>>
    /\ multi' = <<>>
    /\ spans' = <<>>
    /\ UNCHANGED <<slokDir, normVars, fix, counters, output, slok_path_exists>>

\* generate-html.main, lines 509-524, and read_slok_files, lines 41-49
GenerateHtmlMain ==
    /\ pc = "idle"
    /\ ReadSlokFilesCall("generate_html")

\* generate-md.main, lines 106-121, and read_slok_files, lines 39-47
GenerateMdMain ==
    /\ pc = "idle"
    /\ ReadSlokFilesCall("generate_md")

\* generate-html.read_slok_files, lines 49-73: one iteration of the loop
HtmlReadStep ==
    /\ pc = "generate_html"
    /\ gpc = "reading"
    /\ idx <= Len(json_files)
    /\ slok_data' = slok_data \o HtmlRows(json_files[idx], slokDir[json_files[idx]])
    /\ stdout' = stdout \o ReadReport(json_files[idx], slokDir[json_files[idx]])
    /\ idx' = idx + 1
    /\ UNCHANGED <<slokDir, pc, last, runs, normVars, annVars, written, prev>>
    /\ UNCHANGED <<gpc, gi, grouped, multi, spans, output, slok_path_exists>>

\* generate-md.read_slok_files, lines 47-70: one iteration of the loop
MdReadStep ==
    /\ pc = "generate_md"
    /\ gpc = "reading"
    /\ idx <= Len(json_files)
    /\ slok_data' = slok_data \o MdRows(json_files[idx], slokDir[json_files[idx]])
    /\ stdout' = stdout \o ReadReport(json_files[idx], slokDir[json_files[idx]])
    /\ idx' = idx + 1
    /\ UNCHANGED <<slokDir, pc, last, runs, normVars, annVars, written, prev>>
    /\ UNCHANGED <<gpc, gi, grouped, multi, spans, output, slok_path_exists>>

\* Faulty variant: main goes on to render whatever was read.
nothing_to_render_Never(data) == FALSE

\* generate-html.main, line 526 (generate-md.main, line 123): if not slok_data
nothing_to_render(data) == data = <<>>

\* read_slok_files returns; main either reports that there is no data and
\* returns, or goes on to the rendering function
ReadSlokFilesReturn(tool) ==
    /\ gpc = "reading"
    /\ idx > Len(json_files)
    /\ IF nothing_to_render(slok_data)
       THEN /\ stdout' = Append(stdout, <<"Error: No slok data found!">>)
            /\ pc' = "idle"
            /\ gpc' = "off"
       ELSE /\ gpc' = "read"
            /\ UNCHANGED <<pc, stdout>>
    /\ idx' = 0
    /\ json_files' = <<>>
    /\ UNCHANGED <<slokDir, last, runs, normVars, fix, counters, written, prev>>
    /\ UNCHANGED <<slok_data, gi, grouped, multi, spans, output, slok_path_exists>>

\* generate-html.read_slok_files, line 75, and main, lines 524-531
HtmlReadReturn ==
    /\ pc = "generate_html"
    /\ ReadSlokFilesReturn("generate_html")

\* generate-md.read_slok_files, line 72, and main, lines 121-128
MdReadReturn ==
    /\ pc = "generate_md"
    /\ ReadSlokFilesReturn("generate_md")

\* generate_markdown, lines 86-100: the document written to output_file
MdDocument(data) == <<"md", data>>

\* generate_markdown, lines 83-103: sort, write the document; the process
\* ends
GenerateMarkdown ==
    /\ pc = "generate_md"
    /\ gpc = "read"
    /\ slok_data' = SortSlokData(slok_data)
    /\ output' = [output EXCEPT !.md = MdDocument(SortSlokData(slok_data))]
    /\ stdout' = Append(stdout, <<"Generated", Len(slok_data)>>)
    /\ gpc' = "written"
    /\ pc' = "idle"
    /\ UNCHANGED <<slokDir, last, runs, idx, normVars, annVars, written, prev>>
    /\ UNCHANGED <<gi, grouped, multi, spans, slok_path_exists>>

\* ------------------------------------- the corpus with unusable files
\* File names: chapter 1 verses 2 and 3, and a .json file whose name carries
\* no numbers.
CorpusNames ==
    { [chap |-> <<1>>, verse |-> <<2>>],
      [chap |-> <<1>>, verse |-> <<3>>],
      [chap |-> <<>>, verse |-> <<>>] }

\* A verse record with its commentaries.
RenderRecord(slok, speaker, rams) ==
    << <<"_id", <<"id">> >> >>
    \o (IF speaker = None THEN <<>> ELSE << <<"speaker", speaker>> >>)
    \o << <<"slok", slok>>, <<"rams", rams>> >>

\* File contents: a file that does not parse; a record to annotate, with
\* rams.ht; an annotated record with rams.ht; a record to annotate whose
\* rams has no ht.
CorpusContents ==
    { Malformed,
      RenderRecord(<<"arjuna", "sp", "uvaca", "nl", "w">>, None,
                   << <<"ht", <<"A", " ", "B">> >> >>),
      RenderRecord(<<"w", "nl", "w">>, <<"arjuna">>,
                   << <<"ht", <<"A", " ", "B", " ", "C">> >> >>),
      RenderRecord(<<"arjuna", "sp", "uvaca", "nl", "w">>, None,
                   << <<"et", <<"A", " ", "B">> >> >>) }

\* An output document of an earlier invocation.
Stale == <<"stale">>

InitCorpus ==
    /\ slok_path_exists \in BOOLEAN
    /\ IF slok_path_exists
       THEN \E names \in SUBSET CorpusNames :
               /\ Cardinality(names) <= MaxFiles
               /\ slokDir \in [names -> CorpusContents]
       ELSE slokDir = <<>>
    /\ output \in {NoOutput, [html |-> Stale, md |-> Stale]}
    /\ ToolsIdle
    /\ RendererOff

NextCorpus ==
    \/ Next
    \/ RecomputeCrash
    \/ AddSpeakerCrash
    \/ GenerateHtmlMain
    \/ HtmlReadStep
    \/ HtmlReadReturn
    \/ NextGroup
    \/ GenerateMdMain
    \/ MdReadStep
    \/ MdReadReturn
    \/ GenerateMarkdown

SpecCorpus == InitCorpus /\ [][NextCorpus]_vars

\* ------------------------------------------------ vocabulary of the claims
Range(s) == {s[i] : i \in 1..Len(s)}

\* The verse records: the files whose name encodes (chapter, verse).
Records == {p \in DOMAIN slokDir : p.chap # <<>> /\ p.verse # <<>>}

ChapterOf(p) == SeqToInt(p.chap)

VerseOf(p) == SeqToInt(p.verse)

SlokOf(p) == Get(slokDir[p], "slok", <<>>)

SpeakerOf(p) == Get(slokDir[p], "speaker", None)

PrefixMatching(p) == detect_prefix(SlokOf(p)) # None

\* The prefix-matching records of p's chapter at or before p.
Preceding(p) ==
    {q \in Records : /\ ChapterOf(q) = ChapterOf(p)
                     /\ VerseOf(q) <= VerseOf(p)
                     /\ PrefixMatching(q)}

Nearest(p) == CHOOSE q \in Preceding(p) : \A r \in Preceding(p) : VerseOf(r) <= VerseOf(q)

\* The mapped value of the nearest prefix-matching record, None when there is none.
ExpectedSpeaker(p) ==
    IF Preceding(p) = {} THEN None ELSE detect_prefix(SlokOf(Nearest(p)))

DropKey(data, k) == SelectSeq(data, LAMBDA kv : kv[1] # k)

CountKey(data, k) == Cardinality({i \in 1..Len(data) : data[i][1] = k})

SpeakerBeforeSlok(data) ==
    \A i \in 1..Len(data) :
        data[i][1] = "speaker" => (i < Len(data) /\ data[i + 1][1] = "slok")

RecomputeDone == pc = "idle" /\ last = "recompute"

AddSpeakerDone == pc = "idle" /\ last = "add_speaker"

\* The per-record lines of the Normalizer's output.
RecomputeLines == {k \in 1..Len(stdout) : stdout[k][1] \in {"Updated", "Kept"}}

\* The per-record lines of the Annotator's output.
ActionLines(out) == {k \in 1..Len(out) : out[k][1] \in ActionTags}

\* ------------------------------------------------------------------ C1
\* C1: when a Normalizer run has ended, every record that has a
\* prefix-matching record at or before it in its chapter (in numeric verse
\* order) holds the mapped speaker of the nearest such record: its own prefix
\* when it matches one, the carried-forward one otherwise.
C1_CarryForward ==
    RecomputeDone =>
        \A p \in Records :
            ExpectedSpeaker(p) # None => SpeakerOf(p) = ExpectedSpeaker(p)

\* A prefix-less record was rewritten with the speaker of an earlier record.
C1_Witness ==
    /\ RecomputeDone
    /\ \E p \in Records :
          /\ ~PrefixMatching(p)
          /\ Preceding(p) # {}
          /\ p \in Range(written)
          /\ SpeakerOf(p) = ExpectedSpeaker(p)

\* ------------------------------------------------------------------ C2
\* C2: during and after a Normalizer run, a record that precedes its
\* chapter's first prefix-matching record is never written, and its output
\* line is "Kept" with the speaker it still has: the previous chapter's
\* trailing speaker is not carried over the chapter boundary.
C2_ChapterReset ==
    last = "recompute" =>
        \A p \in Records :
            Preceding(p) = {} =>
                /\ p \notin Range(written)
                /\ \A k \in RecomputeLines :
                      stdout[k][2] = p => stdout[k] = <<"Kept", p, SpeakerOf(p)>>

\* A prefix-less first record of a chapter was kept although the chapter
\* before it ended with another speaker.
C2_Witness ==
    /\ RecomputeDone
    /\ \E p, q \in Records :
          /\ ChapterOf(q) < ChapterOf(p)
          /\ PrefixMatching(q)
          /\ Preceding(p) = {}
          /\ SpeakerOf(p) # SpeakerOf(q)
          /\ \E k \in RecomputeLines : stdout[k] = <<"Kept", p, SpeakerOf(p)>>

\* ------------------------------------------------------------------ C3
\* C3: the Normalizer's per-record output lines appear in strictly ascending
\* numeric (chapter, verse) order, and a finished run has visited every record.
C3_NumericOrder ==
    last = "recompute" =>
        /\ \A i, j \in RecomputeLines :
              i < j =>
                 \/ ChapterOf(stdout[i][2]) < ChapterOf(stdout[j][2])
                 \/ /\ ChapterOf(stdout[i][2]) = ChapterOf(stdout[j][2])
                    /\ VerseOf(stdout[i][2]) < VerseOf(stdout[j][2])
        /\ pc = "idle" => {stdout[k][2] : k \in RecomputeLines} = Records

\* Two records whose file names sort the other way round as strings were
\* visited in numeric order, and the later one inherited a speaker.
C3_Witness ==
    /\ RecomputeDone
    /\ \E i, j \in RecomputeLines :
          /\ i < j
          /\ SeqLess(PathString(stdout[j][2]), PathString(stdout[i][2]))
          /\ stdout[j][1] = "Updated"
          /\ ~PrefixMatching(stdout[j][2])

\* ------------------------------------------------------------------ C4
C4_Step ==
    LET p == entries[idx][3]
        computed == ExpectedSpeaker(p)
        existing == SpeakerOf(p)
        old == slokDir[p]
        new == slokDir'[p]
    IN IF computed # None /\ existing # computed
       THEN /\ written' = Append(written, p)
            /\ Get(new, "speaker", None) = computed
            /\ CountKey(new, "speaker") = 1
            /\ SpeakerBeforeSlok(new)
            /\ DropKey(new, "speaker") = DropKey(old, "speaker")
            /\ \A q \in DOMAIN slokDir : q # p => slokDir'[q] = slokDir[q]
       ELSE /\ written' = written
            /\ slokDir' = slokDir

C4_Summary ==
    stdout'[Len(stdout')] =
        <<"Summary", Cardinality(RecomputeLines), Len(written)>>

\* C4: a Normalizer step writes the record exactly when the speaker computed
\* for it exists and differs from the stored one; the written record holds the
\* computed value in one speaker field immediately before slok and is
\* otherwise the old record without its speaker entry; no other file
\* changes.  The summary reports examined = records visited and changed =
\* files written.
C4_RewriteExactlyWhenDiffers ==
    [][ /\ (pc = "recompute" /\ idx' = idx + 1) => C4_Step
        /\ (pc = "recompute" /\ pc' = "idle") => C4_Summary ]_vars

\* A run has ended that replaced a stored speaker in one record and kept
\* another record.
C4_Witness ==
    /\ RecomputeDone
    /\ \E k \in RecomputeLines :
          /\ stdout[k][1] = "Updated"
          /\ stdout[k][4] # None
          /\ SpeakerOf(stdout[k][2]) = stdout[k][3]
    /\ \E k \in RecomputeLines : stdout[k][1] = "Kept"
    /\ stdout[Len(stdout)] = <<"Summary", 2, 1>>


\* ------------------------------------------------------------------ C5
\* C5: in every state that Annotator runs (with either flag value) and
\* Normalizer runs lead to, every file that has a speaker field has it
\* immediately before slok.
C5_SpeakerPrecedesSlok ==
    \A p \in DOMAIN slokDir :
        /\ SpeakerBeforeSlok(slokDir[p])
        /\ CountKey(slokDir[p], "speaker") <= 1

\* Two runs of different tools have ended and each of them wrote a file.
C5_Witness ==
    /\ pc = "idle"
    /\ prev.tool \notin {"none", last}
    /\ prev.written # <<>>
    /\ written # <<>>
    /\ \A p \in Range(written) \cup Range(prev.written) : HasKey(slokDir[p], "speaker")

\* ------------------------------------------------------------------ C6
\* The speakers mapped from the known prefixes the first line of p's slok
\* starts with.
MatchedSpeakers(p) ==
    {AddSpeaker_PREFIX_MAP[i][2] : i \in {j \in 1..Len(AddSpeaker_PREFIX_MAP) :
        startswith(first_line(SlokOf(p)), AddSpeaker_PREFIX_MAP[j][1])}}

Classified(p, flag) ==
    IF MatchedSpeakers(p) = {} THEN "none"
    ELSE IF SpeakerOf(p) = None THEN "add"
    ELSE IF SpeakerOf(p) \in MatchedSpeakers(p) THEN "match"
    ELSE IF flag THEN "fix"
    ELSE "mismatch"

RECURSIVE SumOf(_, _)
SumOf(f, S) ==
    IF S = {} THEN 0
    ELSE LET a == CHOOSE x \in S : TRUE IN f[a] + SumOf(f, S \ {a})

C6_Step ==
    LET p == json_files[idx]
        line == stdout'[Len(stdout')]
    IN /\ Len(stdout') = Len(stdout) + 1
       /\ line[1] = Classified(p, fix)
       /\ line[2] = p
       /\ counters' = [counters EXCEPT ![line[1]] = counters[line[1]] + 1]

C6_Tally ==
    LET tally == stdout'[Len(stdout')][2]
    IN /\ DOMAIN tally \subseteq {"none", "add", "match", "fix", "mismatch"}
       /\ \A a \in ActionTags :
             LET n == Cardinality({k \in ActionLines(stdout) : stdout[k][1] = a})
             IN IF a \in DOMAIN tally THEN tally[a] = n ELSE n = 0
       /\ SumOf(tally, DOMAIN tally) = Cardinality(DOMAIN slokDir)

\* C6: every Annotator step prints one line whose action is none, add,
\* match, fix or mismatch as the record's prefix, stored speaker and the flag
\* determine, and counts the record under that action only; the final tally
\* holds for each action the number of records that got it and sums to the
\* number of files.
C6_Classification ==
    [][ /\ (pc = "add_speaker" /\ idx' = idx + 1) => C6_Step
        /\ (pc = "add_speaker" /\ pc' = "idle") => C6_Tally ]_vars

\* A run has ended that gave two records different actions.
C6_Witness ==
    /\ AddSpeakerDone
    /\ \E i, j \in ActionLines(stdout) : stdout[i][1] # stdout[j][1]
    /\ SumOf(stdout[Len(stdout)][2], DOMAIN stdout[Len(stdout)][2]) = 2

\* ------------------------------------------------------------------ C7
C7_Step ==
    LET p == json_files[idx]
        rewrite == /\ MatchedSpeakers(p) # {}
                   /\ \/ SpeakerOf(p) = None
                      \/ SpeakerOf(p) \notin MatchedSpeakers(p) /\ fix
    IN /\ written' # written => rewrite
       /\ ~rewrite => (slokDir' = slokDir /\ written' = written)
       /\ \A q \in DOMAIN slokDir : q # p => slokDir'[q] = slokDir[q]

\* C7: an Annotator step writes a file only when a prefix matched and the
\* record has no speaker (add) or has a differing one with the flag on (fix);
\* on none, match and mismatch the directory is left exactly as it was.
C7_WriteOnlyOnAddOrFix ==
    [][ (pc = "add_speaker" /\ idx' = idx + 1) => C7_Step ]_vars

\* A mismatch was reported with the flag off and the record still holds its
\* differing speaker, unwritten.
C7_Witness ==
    /\ last = "add_speaker"
    /\ ~fix
    /\ \E k \in ActionLines(stdout) :
          /\ stdout[k][1] = "mismatch"
          /\ stdout[k][2] \notin Range(written)
          /\ SpeakerOf(stdout[k][2]) = stdout[k][3]
          /\ SpeakerOf(stdout[k][2]) \notin MatchedSpeakers(stdout[k][2])

\* ------------------------------------------------------------------ C8
C8_Step ==
    LET p == json_files[idx]
        old == slokDir[p]
        new == slokDir'[p]
    IN (MatchedSpeakers(p) # {} /\ SpeakerOf(p) = None) =>
          /\ Get(new, "speaker", None) \in MatchedSpeakers(p)
          /\ CountKey(new, "speaker") = 1
          /\ SpeakerBeforeSlok(new)
          /\ DropKey(new, "speaker") = old

\* C8: an Annotator step on a record whose first line starts with a known
\* prefix and that has no speaker leaves it with one speaker field, equal to
\* the value mapped from that prefix, immediately before slok, all other
\* fields keeping their values and order.
C8_AddResult ==
    [][ (pc = "add_speaker" /\ idx' = idx + 1) => C8_Step ]_vars

\* A record was added a speaker.
C8_Witness ==
    /\ last = "add_speaker"
    /\ \E k \in ActionLines(stdout) :
          /\ stdout[k][1] = "add"
          /\ stdout[k][2] \in Range(written)
          /\ SpeakerOf(stdout[k][2]) \in MatchedSpeakers(stdout[k][2])

\* ------------------------------------------------------------------ C9
\* C9: in an Annotator run that follows an Annotator run with the same flag
\* value no file is written, and a record that was added, fixed or matched
\* in the run before gets match.
C9_Idempotent ==
    (last = "add_speaker" /\ prev.tool = "add_speaker" /\ prev.fix = fix) =>
        /\ written = <<>>
        /\ \A k \in ActionLines(stdout) : \A j \in ActionLines(prev.stdout) :
              (stdout[k][2] = prev.stdout[j][2]
                  /\ prev.stdout[j][1] \in {"add", "fix", "match"})
              => stdout[k][1] = "match"

\* The second of two runs with the flag on has ended; the first had added
\* one speaker and fixed another.
C9_Witness ==
    /\ AddSpeakerDone
    /\ prev.tool = "add_speaker"
    /\ prev.fix /\ fix
    /\ \E j \in ActionLines(prev.stdout) : prev.stdout[j][1] = "add"
    /\ \E j \in ActionLines(prev.stdout) : prev.stdout[j][1] = "fix"
    /\ \A k \in ActionLines(stdout) : stdout[k][1] = "match"
    /\ written = <<>>


\* ------------------------------------------------------------------ C10
\* The number of verses of the k-th group.
GroupSize(k) == grouped[k][3] - grouped[k][2] + 1

RECURSIVE GroupStart(_)
\* The position in slok_data of the k-th group's opener, when each group
\* starts right after the one before it.
GroupStart(k) == IF k = 1 THEN 1 ELSE GroupStart(k - 1) + GroupSize(k - 1)

\* Record t may follow record t - 1 in a group opened by record o.
Continues(o, t) ==
    /\ slok_data[t][1] = slok_data[o][1]
    /\ slok_data[t][2] = slok_data[t - 1][2] + 1
    /\ slok_data[t][4] = slok_data[o][4]
    /\ are_texts_equivalent(slok_data[o][3], slok_data[t][3])

\* C10: when group_sloks has returned, its groups are, in input order, the
\* maximal greedy runs: each group starts right after the one before it (the
\* first at the first record), carries its opener's chapter, verse, text and
\* speaker, every later member continues the run (same chapter, verse one
\* greater than the member before, opener's speaker, text equivalent to the
\* opener's text), the record after the group does not, and the groups use
\* up the input.
C10_GreedyRuns ==
    gpc = "returned" =>
        /\ (slok_data = <<>>) = (grouped = <<>>)
        /\ \A k \in 1..Len(grouped) :
              LET o == GroupStart(k)
                  e == o + GroupSize(k) - 1
              IN /\ GroupSize(k) >= 1
                 /\ e <= Len(slok_data)
                 /\ grouped[k] = <<slok_data[o][1], slok_data[o][2], slok_data[e][2],
                                   slok_data[o][3], slok_data[o][4]>>
                 /\ \A t \in (o + 1)..e : Continues(o, t)
                 /\ e < Len(slok_data) => ~Continues(o, e + 1)
                 /\ k = Len(grouped) => e = Len(slok_data)

\* Three consecutive verses of one chapter and speaker whose texts drift:
\* the third is equivalent to the second but not to the opener, so the first
\* group holds two verses and the third verse opens the next group.
C10_Witness ==
    /\ gpc = "returned"
    /\ Len(slok_data) = 3
    /\ Len(grouped) = 2
    /\ GroupSize(1) = 2
    /\ slok_data[3][1] = slok_data[1][1]
    /\ slok_data[3][2] = slok_data[2][2] + 1
    /\ slok_data[3][4] = slok_data[1][4]
    /\ are_texts_equivalent(slok_data[2][3], slok_data[3][3])
    /\ ~are_texts_equivalent(slok_data[1][3], slok_data[3][3])


\* ------------------------------------------------------------------ C11
\* The tokens of a text
Tokens(text) == Split(strip_for_tokens(text))

SharesNoToken(a, b) == ElementsOf(Tokens(a)) \cap ElementsOf(Tokens(b)) = {}

\* group_sloks has returned, and the first three verses carry the texts of
\* the example.
ExampleOpens ==
    /\ gpc \in {"returned", "written"}
    /\ Len(slok_data) >= 3
    /\ slok_data[1][3] = <<"A", "B", "C">>
    /\ slok_data[2][3] = <<"A", "B", "C", " ">>
    /\ slok_data[3][3] = <<"A", "B", "C", "D">>

\* The fourth verse opens the second group, the first spanning verses 1-3.
FourthStartsGroup ==
    /\ Len(grouped) >= 2
    /\ grouped[1][2] = 1
    /\ grouped[1][3] = 3
    /\ grouped[2][2] = 4

SpansSeveral(k) == grouped[k][3] # grouped[k][2]

\* C12: once group_sloks has returned, the grouped messages are at most as
\* many as the records passed to generate_html, and exactly as many when and
\* only when no group spans more than one verse; the footer of the page
\* written gives the number of those records as 'Total Verses' (and the
\* number of groups as 'Messages Displayed').
C12_RendererCounts ==
    /\ gpc \in {"returned", "written"} =>
          /\ Len(grouped) <= Len(slok_data)
          /\ (Len(grouped) = Len(slok_data)) = (\A k \in 1..Len(grouped) : ~SpansSeveral(k))
    /\ gpc = "written" =>
          /\ output.html[1] = "html"
          /\ output.html[2] = <<Len(slok_data), Len(grouped)>>
          /\ output.html[3] = grouped

\* A page written for three verses shown as two messages.
C12_Witness ==
    /\ gpc = "written"
    /\ Len(slok_data) = 3
    /\ Len(grouped) = 2
    /\ \E k \in 1..2 : SpansSeveral(k)
    /\ output.html[2] = <<3, 2>>


\* ------------------------------------------------------------------ C16
\* The groups record t of the sorted input belongs to.
GroupsOf(t) == {k \in 1..Len(spans) : spans[k][1] <= t /\ t < spans[k][2]}

\* C16: once group_sloks has returned on the sorted input, there is one
\* index range [i, j) per group; the ranges are non-empty, the first starts
\* at the first record, each next one starts where the one before ends and
\* the last ends with the input, so every record belongs to exactly one
\* group and the group lengths sum to the number of records; each group's
\* start_verse and end_verse are the verse numbers of its first and last
\* member, and end_verse - start_verse + 1 is its member count.
C16_Partition ==
    gpc \in {"returned", "written"} =>
        /\ Len(spans) = Len(grouped)
        /\ (spans = <<>>) = (slok_data = <<>>)
        /\ spans # <<>> => /\ spans[1][1] = 1
                           /\ spans[Len(spans)][2] = Len(slok_data) + 1
        /\ \A k \in 1..Len(spans) :
              /\ spans[k][1] < spans[k][2]
              /\ k < Len(spans) => spans[k + 1][1] = spans[k][2]
              /\ grouped[k][2] = slok_data[spans[k][1]][2]
              /\ grouped[k][3] = slok_data[spans[k][2] - 1][2]
              /\ grouped[k][3] - grouped[k][2] + 1 = spans[k][2] - spans[k][1]
        /\ \A t \in 1..Len(slok_data) : Cardinality(GroupsOf(t)) = 1
        /\ SumOf([k \in 1..Len(spans) |-> spans[k][2] - spans[k][1]], 1..Len(spans))
              = Len(slok_data)

\* Three records in two groups, one of them of two verses.
C16_Witness ==
    /\ gpc = "returned"
    /\ Len(slok_data) = 3
    /\ Len(spans) = 2
    /\ \E k \in 1..2 : spans[k][2] - spans[k][1] = 2


\* ------------------------------------------------------------------ C15
\* C15: in a Normalizer run that follows a complete Normalizer run, no file
\* is opened for writing and every record is reported as kept, so the
\* directory stays as the first run left it; the run's summary reports every
\* record examined and changed = 0.
C15_NormalizerIdempotent ==
    (last = "recompute" /\ prev.tool = "recompute") =>
        /\ written = <<>>
        /\ \A k \in RecomputeLines : stdout[k][1] = "Kept"
        /\ pc = "idle" =>
              stdout[Len(stdout)] = <<"Summary", Cardinality(Records), 0>>

\* The second of two Normalizer runs has ended; the first had rewritten a
\* record, the second kept every record.
C15_Witness ==
    /\ RecomputeDone
    /\ prev.tool = "recompute"
    /\ prev.written # <<>>
    /\ written = <<>>
    /\ Cardinality(RecomputeLines) = 2
    /\ stdout[Len(stdout)] = <<"Summary", 2, 0>>

\* ------------------------------------------------------------------ C17
\* C17, as stated: in an Annotator run (either flag) that follows a complete
\* Normalizer run, every file is reported as match or none and no file is
\* written.
C17_AsStated ==
    (last = "add_speaker" /\ prev.tool = "recompute") =>
        /\ \A k \in ActionLines(stdout) : stdout[k][1] \in {"match", "none"}
        /\ written = <<>>

\* C17, amended: in an Annotator run (either flag) that follows a complete
\* Normalizer run, every verse record (a file whose name encodes chapter
\* and verse, the files the Normalizer visits) is reported as match or none
\* and none of them is written.
C17_RecordsMatchOrNone ==
    (last = "add_speaker" /\ prev.tool = "recompute") =>
        /\ \A k \in ActionLines(stdout) :
              stdout[k][2] \in Records => stdout[k][1] \in {"match", "none"}
        /\ Range(written) \cap Records = {}

\* An Annotator run has ended after a Normalizer run that had rewritten a
\* record: the rewritten record is reported as match, and a record without
\* prefix as none.
C17_Witness ==
    /\ AddSpeakerDone
    /\ prev.tool = "recompute"
    /\ \E k \in ActionLines(stdout) :
          /\ stdout[k][1] = "match"
          /\ stdout[k][2] \in Range(prev.written)
    /\ \E k \in ActionLines(stdout) :
          /\ stdout[k][1] = "none"
          /\ stdout[k][2] \in Records


\* ------------------------------------------------------------------ C13
Renderers == {"generate_html", "generate_md"}

\* A failure to read file p was printed.
Reported(out, p) ==
    \E k \in 1..Len(out) : out[k] \in {<<"Error reading", p>>, <<"Traceback", p>>}

\* slok_data has a row for file p.
HasRow(data, p) ==
    \E k \in 1..Len(data) : data[k][1] = ChapterOf(p) /\ data[k][2] = VerseOf(p)

\* C13, as stated: when a run of any of the four tools has ended, every
\* file of the tool's selection that does not parse was reported and every
\* file that parses was processed: it has its outcome line (Annotator), its
\* Updated or Kept line (Normalizer), or, when it carries rams.ht, its row in
\* the rendered sequence (renderers).
C13_AsStated ==
    pc = "idle" =>
        /\ last = "add_speaker" =>
              \A p \in DOMAIN slokDir :
                  IF Parses(slokDir[p])
                  THEN \E k \in ActionLines(stdout) : stdout[k][2] = p
                  ELSE Reported(stdout, p)
        /\ last = "recompute" =>
              \A p \in Records :
                  IF Parses(slokDir[p])
                  THEN \E k \in RecomputeLines : stdout[k][2] = p
                  ELSE Reported(stdout, p)
        /\ last \in Renderers =>
              \A p \in Records :
                  IF Parses(slokDir[p])
                  THEN HasRamsHt(slokDir[p]) => HasRow(slok_data, p)
                  ELSE Reported(stdout, p)

\* ------------------------------------------------------------------ C14
\* The files read_slok_files takes a row from.
UsableFiles == {p \in DOMAIN slokDir : Usable(p, slokDir[p])}

\* The rows of the usable files, for the tool.
ExpectedRows(tool) ==
    IF tool = "generate_html"
    THEN {HtmlRows(p, slokDir[p])[1] : p \in UsableFiles}
    ELSE {MdRows(p, slokDir[p])[1] : p \in UsableFiles}

\* The rows are in (chapter, verse) order.
IsSorted(data) ==
    \A k \in 1..(Len(data) - 1) :
        \/ data[k][1] < data[k + 1][1]
        \/ data[k][1] = data[k + 1][1] /\ data[k][2] <= data[k + 1][2]

\* The step that ends a run of the renderer pc.
C14_End ==
    /\ IF UsableFiles = {}
       THEN /\ output' = output
            /\ stdout'[Len(stdout')] = <<"Error: No slok data found!">>
            /\ ~slok_path_exists => stdout'[1] = <<"Error: Directory does not exist!">>
       ELSE /\ Range(slok_data') = ExpectedRows(pc)
            /\ Len(slok_data') = Cardinality(UsableFiles)
            /\ IsSorted(slok_data')
            /\ IF pc = "generate_html"
               THEN /\ output'.html = <<"html", <<Len(slok_data'), Len(grouped')>>, grouped'>>
                    /\ output'.md = output.md
               ELSE /\ output'.md = <<"md", slok_data'>>
                    /\ output'.html = output.html
    /\ \A p \in Records :
          (Parses(slokDir[p]) /\ ~HasRamsHt(slokDir[p])) =>
              /\ <<"Warning", p>> \in Range(stdout')
              /\ ~HasRow(slok_data', p)

\* C14: while a renderer runs over a directory that is missing or holds no
\* usable record (no file whose name encodes chapter and verse, or each such
\* file malformed or without rams.ht), no step changes an output document,
\* and the run ends with the error line; otherwise the document written
\* holds exactly the usable records, in order (for the HTML page: their
\* count in the footer and their groups), and the other tool's document is
\* left alone.  Every record without rams.ht is warned about and has no row.
C14_NothingToRender ==
    [][ /\ (pc \in Renderers /\ UsableFiles = {}) => output' = output
        /\ (pc \in Renderers /\ pc' = "idle") => C14_End ]_vars

\* A renderer run has ended over a directory with a malformed file and a
\* record without rams.ht: the stale documents are still there, the record
\* was warned about, the last line is the error.
C14_Witness ==
    /\ pc = "idle"
    /\ last \in Renderers
    /\ slok_path_exists
    /\ \E p, q \in Records :
          /\ ~Parses(slokDir[p])
          /\ Parses(slokDir[q]) /\ ~HasRamsHt(slokDir[q])
          /\ <<"Warning", q>> \in Range(stdout)
          /\ <<"Error reading", p>> \in Range(stdout)
    /\ stdout[Len(stdout)] = <<"Error: No slok data found!">>
    /\ output = [html |-> Stale, md |-> Stale]

=============================================================================
